---- MODULE Spec2Model ----
(***************************************************************************)
(* Model of the math service's memoization and asynchronous computation    *)
(* core: the in-memory result cache (utils/cache.py), the append-only      *)
(* operations log (db/sqlite_handler.py), the queue worker                 *)
(* (workers/thread_worker.py) and the two request coordinators, the REST   *)
(* handlers (api/main.py) and the CLI commands (cli.py).                   *)
(*                                                                         *)
(* Python strings are TLA+ strings; JSON text is built by concatenation as *)
(* model_dump_json builds it.  Python's None is the value None below.      *)
(***************************************************************************)
EXTENDS Integers, Sequences, FiniteSets, Bags, TLC

\* ------------------------------------------------------------------ bounds
\* the argument n (and exponent y) the valid requests carry
MaxN == 3
\* most rows the operations table holds in a run
MaxLog == 4
\* most clock ticks in a run
MaxTicks == 1
\* most clear_cache() calls in a run
MaxClears == 1
\* most items ever put on task_queue in a run
MaxTasks == 2

None == "None"

\* ---------------------------------------------------------- operations
Operations == {"pow", "factorial", "fibonacci"}

\* result of calling a Python function: it returns a value or raises
Returned(v) == [raised |-> FALSE, value |-> v]
Raised == [raised |-> TRUE, value |-> 0]

\* a faulty loop body: the result is read from a instead of b
RECURSIVE fib_loop_a(_, _, _)
fib_loop_a(a, b, k) == IF k = 0 THEN a ELSE fib_loop_a(b, a + b, k - 1)

RECURSIVE fib_loop(_, _, _)
fib_loop(a, b, k) == IF k = 0 THEN b ELSE fib_loop(b, a + b, k - 1)

fibonacci(n) ==
    IF n < 0 THEN Raised
    ELSE IF n \in {0, 1} THEN Returned(n)
    ELSE Returned(fib_loop(0, 1, n - 1))

RECURSIVE fact_prod(_)
fact_prod(n) == IF n <= 1 THEN 1 ELSE n * fact_prod(n - 1)

factorial(n) == IF n < 0 THEN Raised ELSE Returned(fact_prod(n))

RECURSIVE int_pow(_, _)
int_pow(x, y) == IF y = 0 THEN 1 ELSE x * int_pow(x, y - 1)

\* power on the integer-valued floats with a non-negative exponent, and on zero
\* with a negative exponent, which floating arithmetic does not support
power(x, y) == IF x = 0 /\ y < 0 THEN Raised ELSE Returned(int_pow(x, y))

\* func(**args) for the three registered functions
Call(func, args) ==
    CASE func = "power" -> power(args.x, args.y)
      [] func = "factorial" -> factorial(args.n)
      [] func = "fibonacci" -> fibonacci(args.n)

OperationFunc(operation) == IF operation = "pow" THEN "power" ELSE operation

\* ------------------------------------------------------------- models
\* request payloads a front end receives
PowBases == {2}
Payloads(operation) ==
    IF operation = "pow"
    THEN {[x |-> b, y |-> MaxN] : b \in PowBases}
    ELSE {[n |-> k] : k \in {0 - 1, MaxN}}

\* faulty input models: n without its ge=0 constraint
ValidatesAnything(operation, payload) == TRUE

\* PowInput(...), FactorialInput(...), FibonacciInput(...): n has ge=0
Validates(operation, payload) ==
    IF operation = "pow" THEN TRUE ELSE payload.n >= 0

\* a float field with an integral value is dumped with a trailing ".0"
FloatJson(v) == ToString(v) \o ".0"

\* data.model_dump_json() of the input models
InputJson(operation, data) ==
    IF operation = "pow"
    THEN "{\"x\":" \o FloatJson(data.x) \o ",\"y\":" \o FloatJson(data.y) \o "}"
    ELSE "{\"n\":" \o ToString(data.n) \o "}"

\* output.model_dump_json() of PowResult / FactorialResult / FibonacciResult
ResultJson(operation, data, result) ==
    IF operation = "pow"
    THEN "{\"operation\":\"pow\",\"x\":" \o FloatJson(data.x)
            \o ",\"y\":" \o FloatJson(data.y)
            \o ",\"result\":" \o FloatJson(result) \o "}"
    ELSE "{\"operation\":\"" \o operation \o "\",\"n\":" \o ToString(data.n)
            \o ",\"result\":" \o ToString(result) \o "}"

\* the result models whose JSON text the service can hold
ResultValues ==
    UNION {{Call(OperationFunc(o), p).value : p \in Payloads(o)} : o \in Operations}
ResultModels ==
    {[operation |-> op, data |-> d, result |-> r] :
        op \in Operations, d \in UNION {Payloads(o) : o \in Operations},
        r \in ResultValues}

WellTyped(m) ==
    IF m.operation = "pow" THEN DOMAIN m.data = {"x", "y"} ELSE DOMAIN m.data = {"n"}

\* the models whose dump is text
JsonModels(text) ==
    {m \in ResultModels :
        WellTyped(m) /\ ResultJson(m.operation, m.data, m.result) = text}

\* whether json.loads(text) and the response model accept text
Loadable(text) == JsonModels(text) # {}

\* json.loads(text) read into the response model
JsonLoads(text) == CHOOSE m \in JsonModels(text) : TRUE

\* the body FastAPI sends for a handler's return value
ResponseJson(m) == ResultJson(m.operation, m.data, m.result)

\* the valid requests and their fingerprints (operation, input_json)
Requests == {<<op, d>> : op \in Operations, d \in UNION {Payloads(o) : o \in Operations}}
ValidRequests ==
    {r \in Requests : r[2] \in Payloads(r[1]) /\ Validates(r[1], r[2])}
Fingerprint(operation, data) == <<operation, InputJson(operation, data)>>
Fingerprints == {Fingerprint(r[1], r[2]) : r \in ValidRequests}

\* --------------------------------------------------------------- cache
\* a faulty lookup: the key is built with its two parts swapped
get_from_cache_swapped(cache, operation, input_data) ==
    LET cache_key == <<input_data, operation>>
    IN IF cache_key \in DOMAIN cache THEN cache[cache_key] ELSE None

\* a faulty lookup: any entry of the operation answers, whatever its input
get_from_cache_by_operation(cache, operation, input_data) ==
    LET same == {k \in DOMAIN cache : k[1] = operation}
    IN IF same # {} THEN cache[CHOOSE k \in same : TRUE] ELSE None

\* memory_cache.get(cache_key) as get_from_cache returns it
get_from_cache(cache, operation, input_data) ==
    LET cache_key == <<operation, input_data>>
    IN IF cache_key \in DOMAIN cache THEN cache[cache_key] ELSE None

\* a faulty store: the input text is stored in place of the result
set_in_cache_input(cache, operation, input_data, result) ==
    LET cache_key == <<operation, input_data>>
    IN [k \in DOMAIN cache \cup {cache_key} |->
           IF k = cache_key THEN input_data ELSE cache[k]]

\* a faulty store: memory_cache.setdefault(cache_key, result), which keeps the
\* value a key already has
set_in_cache_first(cache, operation, input_data, result) ==
    LET cache_key == <<operation, input_data>>
    IN [k \in DOMAIN cache \cup {cache_key} |->
           IF k \in DOMAIN cache THEN cache[k] ELSE result]

\* memory_cache[cache_key] = result
set_in_cache(cache, operation, input_data, result) ==
    LET cache_key == <<operation, input_data>>
    IN [k \in DOMAIN cache \cup {cache_key} |->
           IF k = cache_key THEN result ELSE cache[k]]

\* a faulty clear that drops one entry and keeps the others
clear_cache_one(cache) ==
    LET gone == CHOOSE k \in DOMAIN cache : TRUE
    IN IF DOMAIN cache = {} THEN cache
       ELSE [k \in DOMAIN cache \ {gone} |-> cache[k]]

\* a faulty clear: without the global statement the assignment binds a local
\* name and the module's dict is left as it was
clear_cache_local(cache) == cache

\* memory_cache = {}
clear_cache(cache) == [k \in {} |-> None]

\* f"{op}({inp})" for a key (op, inp)
KeyText(k) == k[1] \o "(" \o k[2] \o ")"

\* a faulty report: cached_keys built as a set, which holds equal texts once
get_cache_stats_distinct(cache) ==
    [total_cached_operations |-> Cardinality(DOMAIN cache),
     cached_keys |-> SetToBag({KeyText(k) : k \in DOMAIN cache})]

\* get_cache_stats() without cache_size_mb; the list cached_keys is kept as the
\* bag of its entries, its order left out
get_cache_stats(cache) ==
    [total_cached_operations |-> Cardinality(DOMAIN cache),
     cached_keys |-> [t \in {KeyText(k) : k \in DOMAIN cache} |->
                        Cardinality({k \in DOMAIN cache : KeyText(k) = t})]]

\* Python truthiness of an Optional[str]: None and "" are falsy
Truthy(s) == s # None /\ s # ""

\* ----------------------------------------------------------------- log
MicrosPerSecond == 1000000

Digits == "0123456789"
RECURSIVE Pad(_, _)
\* n as decimal text, zero-padded to width w
Pad(n, w) ==
    IF w = 0 THEN ""
    ELSE Pad(n \div 10, w - 1) \o SubSeq(Digits, (n % 10) + 1, (n % 10) + 1)

\* datetime.isoformat() of clock value t (microseconds): the seconds field and,
\* unless it is zero, the microsecond field; the date, hour and minute before
\* them are the same text for every clock value of a run
isoformat(t) ==
    LET s == t \div MicrosPerSecond
        u == t % MicrosPerSecond
    IN Pad(s, 2) \o (IF u = 0 THEN "" ELSE "." \o Pad(u, 6))

\* SQLite compares TEXT with memcmp (BINARY collation)
AsciiOrder == "%-.0123456789:ABCDEFGHIJKLMNOPQRSTUVWXYZ_abcdefghijklmnopqrstuvwxyz{}"
Rank(c) ==
    IF \E i \in 1..Len(AsciiOrder) : SubSeq(AsciiOrder, i, i) = c
    THEN CHOOSE i \in 1..Len(AsciiOrder) : SubSeq(AsciiOrder, i, i) = c
    ELSE 0
RECURSIVE TextLess(_, _)
TextLess(a, b) ==
    IF b = "" THEN FALSE
    ELSE IF a = "" THEN TRUE
    ELSE IF Head(a) = Head(b) THEN TextLess(Tail(a), Tail(b))
    ELSE Rank(Head(a)) < Rank(Head(b))
TextLeq(a, b) == a = b \/ TextLess(a, b)

\* SQLite's LIKE: % any run, _ any one character, ASCII letters fold case
UpperCase == "ABCDEFGHIJKLMNOPQRSTUVWXYZ"
LowerCase == "abcdefghijklmnopqrstuvwxyz"
Fold(c) ==
    IF \E i \in 1..Len(UpperCase) : SubSeq(UpperCase, i, i) = c
    THEN LET i == CHOOSE j \in 1..Len(UpperCase) : SubSeq(UpperCase, j, j) = c
         IN SubSeq(LowerCase, i, i)
    ELSE c
RECURSIVE Like(_, _)
Like(text, pattern) ==
    IF pattern = "" THEN text = ""
    ELSE IF Head(pattern) = "%"
         THEN Like(text, Tail(pattern)) \/ (text # "" /\ Like(Tail(text), pattern))
    ELSE /\ text # ""
         /\ (Head(pattern) = "_" \/ Fold(Head(pattern)) = Fold(Head(text)))
         /\ Like(Tail(text), Tail(pattern))

\* a faulty append: INSERT OR REPLACE on (operation, input), which drops the
\* pair's earlier row
save_operation_replace(rows, operation, input_data, result, utcnow) ==
    Append(SelectSeq(rows, LAMBDA row : <<row.operation, row.input>> # <<operation, input_data>>),
           [operation |-> operation, input |-> input_data,
            result |-> result, timestamp |-> isoformat(utcnow)])

\* INSERT INTO operations (operation, input, result, timestamp)
save_operation(rows, operation, input_data, result, utcnow) ==
    Append(rows, [operation |-> operation, input |-> input_data,
                  result |-> result, timestamp |-> isoformat(utcnow)])

\* the WHERE clause both queries build from their optional filters
Matches(row, operation_filter, input_filter) ==
    /\ Truthy(operation_filter) => row.operation = operation_filter
    /\ Truthy(input_filter) => Like(row.input, "%" \o input_filter \o "%")

\* the orders ORDER BY timestamp DESC may return the rows ids in: rows with
\* equal timestamps come in any order
OrderedDesc(rows, ids) ==
    {s \in [1..Cardinality(ids) -> ids] :
        /\ \A i, j \in DOMAIN s : i # j => s[i] # s[j]
        /\ \A i, j \in DOMAIN s :
              i < j => TextLeq(rows[s[j]].timestamp, rows[s[i]].timestamp)}

\* ids of the rows get_all_operations selects
AllRowIds(rows, operation_filter, input_filter) ==
    {i \in DOMAIN rows : Matches(rows[i], operation_filter, input_filter)}

\* the lists get_all_operations may return (text columns left unparsed)
get_all_operations(rows, operation_filter, input_filter) ==
    {[i \in DOMAIN s |-> rows[s[i]]] :
        s \in OrderedDesc(rows, AllRowIds(rows, operation_filter, input_filter))}

\* the subquery: per (operation, input) group of matching rows, MAX(timestamp)
MaxTimestamp(rows, operation, input_data, operation_filter, input_filter) ==
    LET g == {i \in AllRowIds(rows, operation_filter, input_filter) :
                 rows[i].operation = operation /\ rows[i].input = input_data}
    IN IF g = {} THEN None
       ELSE rows[CHOOSE i \in g :
                    \A j \in g : TextLeq(rows[j].timestamp, rows[i].timestamp)].timestamp

\* ids of the rows o1 the join keeps: o1.timestamp = o2.max_timestamp
UniqueRowIds(rows, operation_filter, input_filter) ==
    {i \in DOMAIN rows :
        rows[i].timestamp =
            MaxTimestamp(rows, rows[i].operation, rows[i].input,
                         operation_filter, input_filter)}

\* the lists get_unique_operations may return (text columns left unparsed)
get_unique_operations(rows, operation_filter, input_filter) ==
    {[i \in DOMAIN s |-> rows[s[i]]] :
        s \in OrderedDesc(rows, UniqueRowIds(rows, operation_filter, input_filter))}

\* a faulty summary: the subtraction the other way round
get_db_stats_flipped(rows) ==
    LET total == Len(rows)
        unique == Cardinality({rows[i].operation \o rows[i].input : i \in DOMAIN rows})
        names == {rows[i].operation : i \in DOMAIN rows}
    IN [total_operations |-> total,
        unique_combinations |-> unique,
        duplicates |-> unique - total,
        by_operation |->
            [o \in names |-> Cardinality({i \in DOMAIN rows : rows[i].operation = o})]]

\* a faulty summary: each operation counted once per distinct input
get_db_stats_by_input(rows) ==
    LET total == Len(rows)
        unique == Cardinality({rows[i].operation \o rows[i].input : i \in DOMAIN rows})
        names == {rows[i].operation : i \in DOMAIN rows}
    IN [total_operations |-> total,
        unique_combinations |-> unique,
        duplicates |-> total - unique,
        by_operation |->
            [o \in names |->
                Cardinality({rows[i].input : i \in {j \in DOMAIN rows : rows[j].operation = o}})]]

\* SELECT COUNT(*), COUNT(DISTINCT operation || input), and the GROUP BY counts
get_db_stats(rows) ==
    LET total == Len(rows)
        unique == Cardinality({rows[i].operation \o rows[i].input : i \in DOMAIN rows})
        names == {rows[i].operation : i \in DOMAIN rows}
    IN [total_operations |-> total,
        unique_combinations |-> unique,
        duplicates |-> total - unique,
        by_operation |->
            [o \in names |-> Cardinality({i \in DOMAIN rows : rows[i].operation = o})]]

\* --------------------------------------------------------------- state
VARIABLES
    memory_cache,       \* utils/cache.py: the global dict
    db,                 \* the operations table, rows in rowid order
    now,                \* the wall clock datetime.utcnow() reads, in microseconds
    queue,              \* task_queue: the items put and not yet taken
    unfinished_tasks,   \* task_queue's count of items not yet task_done()
    wstate,             \* where MathWorker.run stands
    wtask,              \* the task the worker took last
    wresult,            \* what the task's func returned
    cli_pc,             \* where the CLI's main thread stands
    out,                \* the last call made from outside and what it returned
    clears,             \* history: clear_cache() calls so far
    stored,             \* history: key -> value last stored since the last clear
    base,               \* history: fingerprint -> its rows in db at the last clear
    served,             \* history: fingerprint -> requests answered since the last clear
    miss_body,          \* history: fingerprint -> what its last cache miss returned
    puts,               \* history: items put on task_queue so far
    trace,              \* history: what the callers put and the worker did, in order
    threads             \* the threads that call in concurrently: where each stands, its locals

cacheVars == <<memory_cache>>
logVars == <<db, now>>
workerVars == <<queue, unfinished_tasks, wstate, wtask, wresult>>
historyVars == <<clears, stored, base, served, miss_body, puts, trace>>
vars == <<memory_cache, db, now, queue, unfinished_tasks, wstate, wtask, wresult,
          cli_pc, out, clears, stored, base, served, miss_body, puts, trace, threads>>

EmptyDict == [k \in {} |-> None]
\* the threads that run the callers, and a thread that is in no call
MaxThreads == 2
ThreadIds == 1..MaxThreads
Thread0 == [pc |-> "idle", operation |-> "", input |-> "", result |-> "",
            timestamp |-> "", snapshot |-> <<>>, total |-> 0, unique |-> 0]
\* what stands for "no task": the worker's locals before its first task
NoTask == [id |-> 0, func |-> None, args |-> [n |-> 0], callback |-> [kind |-> None]]
Call0 == [call |-> "start", key |-> <<>>, value |-> [returned |-> None]]

Init ==
    /\ memory_cache = EmptyDict
    /\ db = <<>>
    /\ now = MicrosPerSecond - 1
    /\ queue = <<>>
    /\ unfinished_tasks = 0
    /\ wstate = "get"
    /\ wtask = NoTask
    /\ wresult = 0
    /\ cli_pc = "ready"
    /\ out = Call0
    /\ clears = 0
    /\ stored = EmptyDict
    /\ base = [f \in Fingerprints |-> 0]
    /\ served = [f \in Fingerprints |-> 0]
    /\ miss_body = [f \in Fingerprints |-> None]
    /\ puts = 0
    /\ trace = <<>>
    /\ threads = [t \in ThreadIds |-> Thread0]

\* time passes
Tick ==
    /\ now < MicrosPerSecond - 1 + MaxTicks
    /\ now' = now + 1
    /\ UNCHANGED <<threads, memory_cache, db, queue, unfinished_tasks, wstate, wtask, wresult,
                   cli_pc, out, clears, stored, base, served, miss_body, puts, trace>>

\* ------------------------------------------- the cache functions, called directly
CacheOperations == {"pow", "factorial", "pow("}
CacheInputs == {"{\"n\":5}", "({\"n\":5}"}
CacheResults == {"{\"result\":8}", "{\"result\":120}", ""}

CallSetInCache(operation, input_data, result) ==
    /\ memory_cache' = set_in_cache(memory_cache, operation, input_data, result)
    /\ out' = [call |-> "set_in_cache", key |-> <<operation, input_data>>,
               value |-> [returned |-> None]]
    /\ stored' = (<<operation, input_data>> :> result) @@ stored
    /\ UNCHANGED <<threads, db, now, queue, unfinished_tasks, wstate, wtask, wresult, cli_pc,
                   clears, base, served, miss_body, puts, trace>>

CallGetFromCache(operation, input_data) ==
    /\ out' = [call |-> "get_from_cache", key |-> <<operation, input_data>>,
               value |-> [returned |-> get_from_cache(memory_cache, operation, input_data)]]
    /\ UNCHANGED <<threads, memory_cache, db, now, queue, unfinished_tasks, wstate, wtask,
                   wresult, cli_pc, clears, stored, base, served, miss_body, puts, trace>>

CallGetCacheStats ==
    /\ out' = [call |-> "get_cache_stats", key |-> <<>>,
               value |-> get_cache_stats(memory_cache)]
    /\ UNCHANGED <<threads, memory_cache, db, now, queue, unfinished_tasks, wstate, wtask,
                   wresult, cli_pc, clears, stored, base, served, miss_body, puts, trace>>

\* clear_cache(), also POST /api/cache/clear; value is the old_size it logs
ClearCacheUpTo(bound) ==
    /\ clears < bound
    /\ memory_cache' = clear_cache(memory_cache)
    /\ out' = [call |-> "clear_cache", key |-> <<>>,
               value |-> [old_size |-> Cardinality(DOMAIN memory_cache)]]
    /\ clears' = clears + 1
    /\ stored' = EmptyDict
    /\ base' = [f \in Fingerprints |->
                  Cardinality({i \in DOMAIN db : <<db[i].operation, db[i].input>> = f})]
    /\ served' = [f \in Fingerprints |-> 0]
    /\ miss_body' = [f \in Fingerprints |-> None]
    /\ UNCHANGED <<threads, db, now, queue, unfinished_tasks, wstate, wtask, wresult, cli_pc,
                   puts, trace>>

ClearCache == ClearCacheUpTo(MaxClears)

CacheNext ==
    \/ \E o \in CacheOperations, i \in CacheInputs, r \in CacheResults :
           CallSetInCache(o, i, r)
    \/ \E o \in CacheOperations, i \in CacheInputs : CallGetFromCache(o, i)
    \/ CallGetCacheStats
    \/ ClearCache

SpecCache == Init /\ [][CacheNext]_vars

\* --------------------------------------------- the log functions, called directly
LogOperations == {"pow", "po"}
LogInputs == {"{}", "w{}"}
LogResults == {"1"}

CallSaveOperation(operation, input_data, result) ==
    /\ Len(db) < MaxLog
    /\ db' = save_operation(db, operation, input_data, result, now)
    /\ out' = [call |-> "save_operation", key |-> <<operation, input_data>>,
               value |-> [returned |-> None]]
    /\ UNCHANGED <<threads, memory_cache, now, queue, unfinished_tasks, wstate, wtask, wresult,
                   cli_pc, clears, stored, base, served, miss_body, puts, trace>>

CallGetDbStats ==
    /\ out' = [call |-> "get_db_stats", key |-> <<>>, value |-> get_db_stats(db)]
    /\ UNCHANGED <<threads, memory_cache, db, now, queue, unfinished_tasks, wstate, wtask,
                   wresult, cli_pc, clears, stored, base, served, miss_body, puts, trace>>

LogNext ==
    \/ \E o \in LogOperations, i \in LogInputs, r \in LogResults :
           CallSaveOperation(o, i, r)
    \/ CallGetDbStats
    \/ Tick

SpecLog == Init /\ [][LogNext]_vars

\* ------------------------------------------------ the REST handlers (api/main.py)
Bump(n) == IF n < 2 THEN n + 1 ELSE n

RowsOf(rows, f) == {i \in DOMAIN rows : <<rows[i].operation, rows[i].input>> = f}

\* what a front end hands back: how the request ended and the text it carries
Answer(path, body) == [path |-> path, body |-> body]

\* calculate_pow / calculate_factorial / calculate_fibonacci, after FastAPI has
\* validated the payload against the handler's input model
ApiCalculate(operation, payload) ==
    LET input_json == InputJson(operation, payload)
        f == <<operation, input_json>>
        cached == get_from_cache(memory_cache, operation, input_json)
        r == Call(OperationFunc(operation), payload)
        result_json == ResultJson(operation, payload, r.value)
        loaded == JsonModels(cached)
    IN
    IF ~Validates(operation, payload)
    THEN /\ out' = [call |-> "api", key |-> f, value |-> Answer("rejected", None)]
         /\ UNCHANGED <<memory_cache, db, stored, served, miss_body>>
    ELSE IF Truthy(cached)
    THEN /\ out' = [call |-> "api", key |-> f, value |->
                      IF loaded # {}
                      THEN Answer("hit", ResponseJson(CHOOSE m \in loaded : TRUE))
                      ELSE Answer("error", None)]
         /\ served' = [served EXCEPT ![f] = IF loaded # {} THEN Bump(@) ELSE @]
         /\ UNCHANGED <<memory_cache, db, stored, miss_body>>
    ELSE IF r.raised
    THEN /\ out' = [call |-> "api", key |-> f, value |-> Answer("error", None)]
         /\ UNCHANGED <<memory_cache, db, stored, served, miss_body>>
    ELSE /\ Len(db) < MaxLog
         /\ memory_cache' = set_in_cache(memory_cache, operation, input_json, result_json)
         /\ db' = save_operation(db, operation, input_json, result_json, now)
         /\ out' = [call |-> "api", key |-> f, value |->
                      Answer("miss", ResponseJson([operation |-> operation,
                                                   data |-> payload, result |-> r.value]))]
         /\ stored' = (f :> result_json) @@ stored
         /\ served' = [served EXCEPT ![f] = Bump(@)]
         /\ miss_body' = [miss_body EXCEPT ![f] = out'.value.body]

ApiCompute(operation, payload) ==
    /\ ApiCalculate(operation, payload)
    /\ UNCHANGED <<threads, now, queue, unfinished_tasks, wstate, wtask, wresult, cli_pc,
                   clears, base, puts, trace>>

ApiNext ==
    \/ \E o \in Operations : \E p \in Payloads(o) : ApiCompute(o, p)
    \/ ClearCache
    \/ Tick

Spec == Init /\ [][ApiNext]_vars

\* ------------------------------------------------------ the worker's queue
\* the item None: the exit signal
NoneItem == NoTask

\* task_queue.put(item)
put(q, item) == Append(q, item)

\* the callback of a task without a "callback" entry: lambda *_: None
DefaultCallback == [kind |-> "default"]

\* the closure on_result a CLI command builds for its request
OnResult(operation, data) == [kind |-> "on_result", operation |-> operation, data |-> data]

\* one entry of the history of the queue and the worker: what happened, to the
\* task of which put, with which value (<<>> where there is none; a put records
\* the func and the args of its task)
Event(what, task, value) == [what |-> what, id |-> task.id, value |-> value]

\* ---------------------------------------------------- the CLI commands (cli.py)
\* pow / fibonacci / factorial up to task_queue.put(...)
CliCommand(operation, payload) ==
    LET input_json == InputJson(operation, payload)
        f == <<operation, input_json>>
        cached == get_from_cache(memory_cache, operation, input_json)
        task == [id |-> puts + 1, func |-> OperationFunc(operation), args |-> payload,
                 callback |-> OnResult(operation, payload)]
    IN
    /\ cli_pc = "ready"
    /\ IF ~Validates(operation, payload)
       THEN /\ out' = [call |-> "cli", key |-> f, value |-> Answer("rejected", None)]
            /\ UNCHANGED <<queue, unfinished_tasks, cli_pc, puts, served, trace>>
       ELSE IF Truthy(cached)
       THEN /\ out' = [call |-> "cli", key |-> f, value |-> Answer("hit", cached)]
            /\ served' = [served EXCEPT ![f] = Bump(@)]
            /\ UNCHANGED <<queue, unfinished_tasks, cli_pc, puts, trace>>
       ELSE /\ puts < MaxTasks
            /\ Len(db) < MaxLog
            /\ queue' = put(queue, task)
            /\ unfinished_tasks' = unfinished_tasks + 1
            /\ puts' = puts + 1
            /\ cli_pc' = "join"
            /\ out' = [call |-> "cli", key |-> f, value |-> Answer("waiting", None)]
            /\ trace' = Append(trace, Event("put", task, <<task.func, task.args>>))
            /\ UNCHANGED served
    /\ UNCHANGED <<threads, memory_cache, db, now, wstate, wtask, wresult, clears, stored, base,
                   miss_body>>

\* task_queue.join() returns once every item put has been marked done
CliJoin ==
    /\ cli_pc = "join"
    /\ unfinished_tasks = 0
    /\ cli_pc' = "ready"
    /\ UNCHANGED <<threads, memory_cache, db, now, queue, unfinished_tasks, wstate, wtask,
                   wresult, out, clears, stored, base, served, miss_body, puts, trace>>

\* tasks other code of the process puts on the queue: a call that returns, a call
\* that raises, and a dict without a "func" entry
OtherTasks ==
    {[func |-> "fibonacci", args |-> [n |-> MaxN], callback |-> DefaultCallback],
     [func |-> "fibonacci", args |-> [n |-> 0 - 1], callback |-> DefaultCallback],
     [func |-> "missing", args |-> [n |-> MaxN], callback |-> DefaultCallback]}

Submit(t) ==
    LET task == [id |-> puts + 1, func |-> t.func, args |-> t.args,
                 callback |-> t.callback]
    IN
    /\ puts < MaxTasks
    /\ queue' = put(queue, task)
    /\ unfinished_tasks' = unfinished_tasks + 1
    /\ puts' = puts + 1
    /\ trace' = Append(trace, Event("put", task, <<task.func, task.args>>))
    /\ UNCHANGED <<threads, memory_cache, db, now, wstate, wtask, wresult, cli_pc, out, clears,
                   stored, base, served, miss_body>>

\* task_queue.put(None)
Shutdown ==
    /\ puts < MaxTasks
    /\ NoneItem \notin {queue[i] : i \in DOMAIN queue}
    /\ wstate # "stopped"
    /\ queue' = put(queue, NoneItem)
    /\ unfinished_tasks' = unfinished_tasks + 1
    /\ puts' = puts + 1
    /\ UNCHANGED <<threads, memory_cache, db, now, wstate, wtask, wresult, cli_pc, out, clears,
                   stored, base, served, miss_body, trace>>

\* ------------------------------------------- MathWorker.run (thread_worker.py)
\* a faulty worker that takes the next item while a callback is still running
AtGetOrInCallback == wstate \in {"get", "in_callback"}

\* the worker may take the next item: it is blocked in self.queue.get()
AtGet == wstate = "get"

\* a faulty queue: a LifoQueue, which hands out the item put last
get_lifo(q) == [item |-> q[Len(q)], rest |-> SubSeq(q, 1, Len(q) - 1)]

\* self.queue.get() on a queue.Queue: the item put first, and what stays queued
get(q) == [item |-> Head(q), rest |-> Tail(q)]

\* task = self.queue.get(); if task is None: break
WorkerGet ==
    /\ AtGet
    /\ queue # <<>>
    /\ queue' = get(queue).rest
    /\ IF get(queue).item.id = NoneItem.id
       THEN /\ wstate' = "stopped"
            /\ trace' = Append(trace, Event("exit", NoneItem, <<>>))
            /\ UNCHANGED wtask
       ELSE /\ wstate' = "func"
            /\ wtask' = get(queue).item
            /\ trace' = Append(trace, Event("get", get(queue).item, <<>>))
    /\ UNCHANGED <<threads, memory_cache, db, now, unfinished_tasks, wresult, cli_pc, out,
                   clears, stored, base, served, miss_body, puts>>

\* a faulty worker without the except clause: the exception ends the thread
AfterRaiseUncaught == "stopped"

\* a faulty worker whose except clause raises the exception again
AfterRaiseReraised == "stopped"

\* a faulty worker whose except clause goes on to call the callback
AfterRaiseCallsBack == "callback"

\* where the worker goes when the try block raised at the func call: the except
\* clause logs the exception, then the finally clause runs
AfterRaise == "finally"

\* func = task["func"] ... result = func(**args)
WorkerFunc ==
    /\ wstate = "func"
    /\ IF wtask.func = "missing"
       THEN /\ wstate' = AfterRaise
            /\ trace' = Append(trace, Event("raised", wtask, <<>>))
            /\ UNCHANGED wresult
       ELSE LET r == Call(wtask.func, wtask.args)
            IN IF r.raised
               THEN /\ wstate' = AfterRaise
                    /\ trace' = trace \o <<Event("func", wtask, <<>>),
                                           Event("raised", wtask, <<>>)>>
                    /\ UNCHANGED wresult
               ELSE /\ wstate' = "callback"
                    /\ wresult' = r.value
                    /\ trace' = trace \o <<Event("func", wtask, <<>>),
                                           Event("returned", wtask, <<r.value>>)>>
    /\ UNCHANGED <<threads, memory_cache, db, now, queue, unfinished_tasks, wtask, cli_pc, out,
                   clears, stored, base, served, miss_body, puts>>

\* callback(result) is entered; on_result dumps the result model and stores it
WorkerCallback ==
    /\ wstate = "callback"
    /\ wstate' = "in_callback"
    /\ trace' = Append(trace, Event("callback", wtask, <<wresult>>))
    /\ IF wtask.callback.kind = "on_result"
       THEN LET operation == wtask.callback.operation
                data == wtask.callback.data
                input_json == InputJson(operation, data)
                result_json == ResultJson(operation, data, wresult)
            IN /\ memory_cache' =
                      set_in_cache(memory_cache, operation, input_json, result_json)
               /\ stored' = (<<operation, input_json>> :> result_json) @@ stored
       ELSE UNCHANGED <<memory_cache, stored>>
    /\ UNCHANGED <<threads, db, now, queue, unfinished_tasks, wtask, wresult, cli_pc, out,
                   clears, base, served, miss_body, puts>>

\* the callback raises: the except clause logs the exception, the finally clause
\* runs
WorkerCallbackRaise ==
    /\ wstate = "in_callback"
    /\ wtask.callback.kind = "raises"
    /\ wstate' = AfterRaise
    /\ trace' = Append(trace, Event("callback_raised", wtask, <<>>))
    /\ UNCHANGED <<threads, memory_cache, db, now, queue, unfinished_tasks, wtask, wresult, cli_pc,
                   out, clears, stored, base, served, miss_body, puts>>

\* the callback runs to its end; on_result appends the row and echoes the result
WorkerCallbackReturn ==
    /\ wstate = "in_callback"
    /\ wtask.callback.kind # "raises"
    /\ wstate' = "finally"
    /\ trace' = Append(trace, Event("callback_end", wtask, <<>>))
    /\ IF wtask.callback.kind = "on_result"
       THEN LET operation == wtask.callback.operation
                data == wtask.callback.data
                input_json == InputJson(operation, data)
                f == <<operation, input_json>>
                result_json == ResultJson(operation, data, wresult)
            IN /\ db' = save_operation(db, operation, input_json, result_json, now)
               /\ out' = [call |-> "cli", key |-> f, value |-> Answer("miss", result_json)]
               /\ served' = [served EXCEPT ![f] = Bump(@)]
               /\ miss_body' = [miss_body EXCEPT ![f] = result_json]
       ELSE UNCHANGED <<db, out, served, miss_body>>
    /\ UNCHANGED <<threads, memory_cache, now, queue, unfinished_tasks, wtask, wresult, cli_pc,
                   clears, stored, base, puts>>

\* finally: self.queue.task_done()
WorkerTaskDone ==
    /\ wstate = "finally"
    /\ wstate' = "get"
    /\ unfinished_tasks' = unfinished_tasks - 1
    /\ trace' = Append(trace, Event("task_done", wtask, <<>>))
    /\ UNCHANGED <<threads, memory_cache, db, now, queue, wtask, wresult, cli_pc, out, clears,
                   stored, base, served, miss_body, puts>>

WorkerStep ==
    \/ WorkerGet
    \/ WorkerFunc
    \/ WorkerCallback
    \/ WorkerCallbackReturn
    \/ WorkerTaskDone

WorkerNext ==
    \/ \E o \in Operations : \E p \in Payloads(o) : CliCommand(o, p)
    \/ CliJoin
    \/ \E t \in OtherTasks : Submit(t)
    \/ Shutdown
    \/ ClearCache
    \/ WorkerStep

SpecWorker == Init /\ [][WorkerNext]_vars

\* the worker thread is scheduled as long as it can run
FairWorker == SpecWorker /\ WF_vars(WorkerStep)

\* the worker thread is scheduled as long as it can run, and a caller blocked in
\* join() returns once join() lets it
FairCli == SpecWorker /\ WF_vars(WorkerStep) /\ WF_vars(CliJoin)

\* ----------------------------------------- both front ends on failing storage
\* calculate_*: save_operation raises after set_in_cache stored the result; the
\* except clause answers with HTTPException(500)
ApiSaveFails(operation, payload) ==
    LET input_json == InputJson(operation, payload)
        f == <<operation, input_json>>
        r == Call(OperationFunc(operation), payload)
        result_json == ResultJson(operation, payload, r.value)
    IN
    /\ Validates(operation, payload)
    /\ ~Truthy(get_from_cache(memory_cache, operation, input_json))
    /\ ~r.raised
    /\ memory_cache' = set_in_cache(memory_cache, operation, input_json, result_json)
    /\ stored' = (f :> result_json) @@ stored
    /\ out' = [call |-> "api", key |-> f, value |-> Answer("error", None)]
    /\ UNCHANGED <<threads, db, now, queue, unfinished_tasks, wstate, wtask, wresult, cli_pc,
                   clears, base, served, miss_body, puts, trace>>

\* on_result: save_operation raises; the worker's except clause logs and echoes
\* the error, the result is not echoed, the finally clause runs
WorkerCallbackSaveFails ==
    /\ wstate = "in_callback"
    /\ wtask.callback.kind = "on_result"
    /\ wstate' = AfterRaise
    /\ trace' = Append(trace, Event("callback_raised", wtask, <<>>))
    /\ out' = [call |-> "cli",
               key |-> <<wtask.callback.operation,
                         InputJson(wtask.callback.operation, wtask.callback.data)>>,
               value |-> Answer("error", None)]
    /\ UNCHANGED <<threads, memory_cache, db, now, queue, unfinished_tasks, wtask, wresult, cli_pc,
                   clears, stored, base, served, miss_body, puts>>

\* the storage fails at some saves: every save of the REST handlers, and any save
\* of on_result
FaultNext ==
    \/ \E o \in Operations : \E p \in Payloads(o) : ApiSaveFails(o, p)
    \/ \E o \in Operations : \E p \in Payloads(o) : CliCommand(o, p)
    \/ CliJoin
    \/ WorkerStep
    \/ WorkerCallbackSaveFails
    \/ ClearCache

SpecFault == Init /\ [][FaultNext]_vars

\* ------------------------------------- the worker alone, fed any kind of task
\* a callback that raises
RaisingCallback == [kind |-> "raises"]

\* the tasks of OtherTasks, and a task whose func returns and whose callback raises
AnyTasks ==
    OtherTasks \cup
    {[func |-> "fibonacci", args |-> [n |-> MaxN], callback |-> RaisingCallback]}

QueueNext ==
    \/ \E t \in AnyTasks : Submit(t)
    \/ Shutdown
    \/ WorkerGet
    \/ WorkerFunc
    \/ WorkerCallback
    \/ WorkerCallbackRaise
    \/ WorkerCallbackReturn
    \/ WorkerTaskDone

SpecQueue == Init /\ [][QueueNext]_vars

\* the steps of MathWorker.run, a raising callback included
WorkerRun == WorkerStep \/ WorkerCallbackRaise

FairQueue == SpecQueue /\ WF_vars(WorkerRun)

\* ------------------------------------------------------------ properties
RowCount(f) == Cardinality(RowsOf(db, f))
\* the newest row of fingerprint f: the one appended last
NewestRow(f) == CHOOSE i \in RowsOf(db, f) : \A j \in RowsOf(db, f) : j <= i

\* C1: a fingerprint answered once or more since the last clear_cache() (or since
\* the start) got exactly one row in that time, however many requests asked for
\* it: the requests after the first are answered from the cache and append nothing.
C1_OneRecordPerFingerprint ==
    \A f \in Fingerprints : served[f] >= 1 => RowCount(f) - base[f] = 1

\* C1 witness: the same request was answered twice with no clear between, the
\* second time from the cache.
C1_Witness ==
    \E f \in Fingerprints :
        /\ served[f] = 2
        /\ out.call = "api" /\ out.key = f /\ out.value.path = "hit"

\* the fingerprints requested, cleared and requested again
AskedTwiceAroundClear == {f \in Fingerprints : base[f] = 1 /\ served[f] >= 1}

\* C2: after a request, one clear_cache() and the same request again, the log
\* holds two rows of the fingerprint and the unique view exactly one, the newer
\* row; and when every row belongs to such a fingerprint, the stats report
\* total = 2k, unique = k, duplicates = k for the k fingerprints.
C2_ClearEnablesDuplicates ==
    clears = 1 =>
        /\ \A f \in AskedTwiceAroundClear :
              /\ RowCount(f) = 2
              /\ \A view \in get_unique_operations(db, None, None) :
                    /\ Cardinality({i \in DOMAIN view :
                                       <<view[i].operation, view[i].input>> = f}) = 1
                    /\ \E i \in DOMAIN view : view[i] = db[NewestRow(f)]
        /\ (\A i \in DOMAIN db :
               <<db[i].operation, db[i].input>> \in AskedTwiceAroundClear)
           => LET k == Cardinality(AskedTwiceAroundClear)
                  stats == get_db_stats(db)
              IN /\ stats.total_operations = 2 * k
                 /\ stats.unique_combinations = k
                 /\ stats.duplicates = k

\* C3: a CLI request that finds its fingerprint in the cache echoes the cached
\* text, which is what the miss that stored it echoed, and does nothing else: no
\* row is appended, nothing is put on the queue, the caller does not go on to
\* wait in join(), and the cache is unchanged.
C3_HitDoesNothingElse ==
    [][\A o \in Operations : \A p \in Payloads(o) :
          (/\ CliCommand(o, p)
           /\ Validates(o, p)
           /\ Truthy(get_from_cache(memory_cache, o, InputJson(o, p))))
          => /\ out'.value = Answer("hit", miss_body[Fingerprint(o, p)])
             /\ db' = db
             /\ queue' = queue
             /\ unfinished_tasks' = unfinished_tasks
             /\ puts' = puts
             /\ cli_pc' = "ready"
             /\ memory_cache' = memory_cache]_vars

\* C3 witness: a request was answered from the cache after an earlier miss of
\* the same fingerprint went through the worker.
C3_Witness ==
    /\ out.call = "cli" /\ out.value.path = "hit"
    /\ served[out.key] = 2
    /\ \E i \in DOMAIN trace : trace[i].what = "callback_end"

\* what the calls since the last clear stored under key, None if nothing
StoredValue(key) == IF key \in DOMAIN stored THEN stored[key] ELSE None

\* C4: get_from_cache(f) returns the value the last set_in_cache(f, v) since the
\* last clear_cache() stored, whatever lookups and stores to other keys came
\* between, and None for a key not stored since the last clear.
C4_LookupReturnsStored ==
    out.call = "get_from_cache" => out.value.returned = StoredValue(out.key)

\* C4 witness: a lookup returned the value stored under its key while another
\* key was stored too.
C4_Witness ==
    /\ out.call = "get_from_cache"
    /\ out.key \in DOMAIN stored
    /\ out.value.returned = stored[out.key]
    /\ Cardinality(DOMAIN stored) >= 2

\* C5: once clear_cache() has returned the cache is empty (no entry, a count
\* of 0, every lookup None), and a key stays absent until it is stored again.
C5_ClearEmptiesCache ==
    /\ out.call = "clear_cache" =>
          /\ get_cache_stats(memory_cache).total_cached_operations = 0
          /\ get_cache_stats(memory_cache).cached_keys = EmptyBag
          /\ \A o \in CacheOperations, i \in CacheInputs :
                get_from_cache(memory_cache, o, i) = None
    /\ clears >= 1 =>
          \A o \in CacheOperations, i \in CacheInputs :
              <<o, i>> \notin DOMAIN stored => get_from_cache(memory_cache, o, i) = None

\* C5 witness: clear_cache() has just removed two or more entries.
C5_Witness == out.call = "clear_cache" /\ out.value.old_size >= 2

\* C6: after any appends get_db_stats reports unique_combinations <=
\* total_operations and duplicates = total_operations - unique_combinations >= 0,
\* and all three are 0 on the empty table.
C6_DedupInvariant ==
    LET stats == get_db_stats(db)
    IN /\ stats.unique_combinations <= stats.total_operations
       /\ stats.duplicates = stats.total_operations - stats.unique_combinations
       /\ stats.duplicates >= 0
       /\ stats.total_operations = Len(db)
       /\ db = <<>> => /\ stats.total_operations = 0
                       /\ stats.unique_combinations = 0
                       /\ stats.duplicates = 0

\* C6 witness: the table holds duplicates of one pair beside another pair.
C6_Witness ==
    /\ get_db_stats(db).duplicates >= 1
    /\ get_db_stats(db).unique_combinations >= 2

\* ------------------------------------------------- properties of the worker
\* the history without the callers' puts: what the worker thread did, in order
WorkerTrace == SelectSeq(trace, LAMBDA e : e.what # "put")

Positions(what, id) == {i \in DOMAIN trace : trace[i].what = what /\ trace[i].id = id}

TaskIds == {trace[i].id : i \in DOMAIN trace} \ {NoneItem.id}

\* the func and the args of the task that put number id put, from the history
PutOf(id) ==
    LET e == trace[CHOOSE i \in Positions("put", id) : TRUE]
    IN [func |-> e.value[1], args |-> e.value[2]]

\* the task of put number id waits on the queue with no exit signal put before it
\* (none ahead of it on the queue, none taken by the worker), and the func of a
\* task put before it has raised in the worker
InLineAfterRaise(id) ==
    /\ Positions("exit", NoneItem.id) = {}
    /\ \E i \in DOMAIN trace : trace[i].what = "raised" /\ trace[i].id < id
    /\ \E k \in DOMAIN queue :
          /\ queue[k].id = id
          /\ \A j \in 1..(k - 1) : queue[j].id # NoneItem.id

WouldReturn(t) ==
    IF t.func = "missing" THEN FALSE ELSE ~Call(t.func, t.args).raised

\* the worker has run the task of put number id: its func was called where it
\* has one and, where the func returns, the callback was called with the value
\* returned
Executed(id) ==
    /\ Positions("task_done", id) # {}
    /\ PutOf(id).func # "missing" => Positions("func", id) # {}
    /\ WouldReturn(PutOf(id)) =>
          \E c \in Positions("callback", id) :
              trace[c].value = <<Call(PutOf(id).func, PutOf(id).args).value>>

\* C7: once the func of a task has raised in the worker, every task put after
\* that task and ahead of any exit signal is still run by the worker: its func is
\* called and, where the func returns, its callback is called with the result.
C7_WorkerSurvivesRaise ==
    \A id \in 1..MaxTasks : InLineAfterRaise(id) ~> Executed(id)

\* C7 witness: the func of one task raised, and the callback of a task put after
\* it was called later.
C7_Witness ==
    \E i, j \in DOMAIN trace :
        /\ i < j
        /\ trace[i].what = "raised"
        /\ trace[j].what = "callback"
        /\ trace[i].id < trace[j].id

\* C8: for two tasks A put before B, the worker neither takes B from the queue
\* nor starts B's func before A is finished, that is before A's callback has
\* returned or A's func has raised.
C8_FifoOneAtATime ==
    \A i, j \in DOMAIN trace :
        (i < j /\ trace[i].what = "put" /\ trace[j].what = "put") =>
            \A k \in DOMAIN trace :
                (trace[k].id = trace[j].id /\ trace[k].what \in {"get", "func"}) =>
                    \E m \in 1..(k - 1) :
                        /\ trace[m].id = trace[i].id
                        /\ trace[m].what \in {"callback_end", "raised"}

\* C8 witness: two tasks were on the queue together before the worker took the
\* first, and the func of the second has been called.
C8_Witness ==
    \E i, j, k \in DOMAIN trace :
        /\ i < j /\ j < k
        /\ trace[i].what = "put" /\ trace[j].what = "put"
        /\ trace[k].what = "get" /\ trace[k].id = trace[i].id
        /\ Positions("func", trace[j].id) # {}

\* C9: the callback of a task is called at most once, only after the task's func
\* returned and with the value it returned, never for a task whose func raised,
\* and exactly once by the time a task whose func returned is marked done.
C9_CallbackOnceIffReturned ==
    \A id \in TaskIds :
        LET callbacks == Positions("callback", id)
            returns == Positions("returned", id)
        IN /\ Cardinality(callbacks) <= 1
           /\ Positions("raised", id) # {} => callbacks = {}
           /\ \A c \in callbacks :
                 \E r \in returns : r < c /\ trace[r].value = trace[c].value
           /\ (returns # {} /\ Positions("task_done", id) # {}) =>
                 Cardinality(callbacks) = 1

\* C9 witness: one task is done whose func returned and whose callback was
\* called, and one task is done whose func raised.
C9_Witness ==
    \E a, b \in TaskIds :
        /\ Positions("callback", a) # {} /\ Positions("task_done", a) # {}
        /\ Positions("raised", b) # {} /\ Positions("task_done", b) # {}

\* C10: whatever the callers put and whenever, a callback is entered by the
\* worker directly after the func of its task returned, and the next thing the
\* worker does is leave that callback: it takes no task from the queue and enters
\* no other callback while one runs, so at most one callback is running.
C10_CallbacksNeverOverlap ==
    LET w == WorkerTrace
    IN /\ \A k \in DOMAIN w :
             w[k].what = "callback" =>
                 /\ k > 1
                 /\ w[k - 1].what = "returned" /\ w[k - 1].id = w[k].id
                 /\ k < Len(w) =>
                       w[k + 1].what = "callback_end" /\ w[k + 1].id = w[k].id
       /\ wstate = "in_callback" <=> (w # <<>> /\ w[Len(w)].what = "callback")
       /\ wstate = "in_callback" => w[Len(w)].id = wtask.id

\* C10 witness: a caller put a task while a callback was running, and the
\* callback of another task ran afterwards.
C10_Witness ==
    \E i, j, k, l \in DOMAIN trace :
        /\ i < j /\ j < k /\ k < l
        /\ trace[i].what = "callback"
        /\ trace[j].what = "put"
        /\ trace[k].what = "callback_end" /\ trace[k].id = trace[i].id
        /\ trace[l].what = "callback" /\ trace[l].id # trace[i].id

\* the worker is executing a task: between taking it and marking it done
Executing == wstate \in {"func", "callback", "in_callback", "finally"}

\* C11: the worker stops only by taking the exit signal None from the queue: a
\* step into "stopped" is a get() that returned None, and a worker executing a
\* task, whether its func or its callback raises or the task has no "func",
\* always comes back to waiting in get().
C11_StoppedOnlyBySentinel ==
    /\ [][(wstate # "stopped" /\ wstate' = "stopped") =>
            (wstate = "get" /\ queue # <<>> /\ Head(queue).id = NoneItem.id)]_vars
    /\ Executing ~> wstate = "get"

\* C11 witness: a callback raised, the worker marked the task done and went back
\* to get(), and it stopped afterwards on the exit signal.
C11_Witness ==
    /\ wstate = "stopped"
    /\ \E i, j \in DOMAIN trace :
          /\ i < j
          /\ trace[i].what = "callback_raised"
          /\ trace[j].what = "task_done" /\ trace[j].id = trace[i].id
    /\ Positions("exit", NoneItem.id) # {}

\* ------------------------------------------------ properties of the queries
\* the filters a query is called with: none, an operation name, a piece of input
OperationFilters == {None, "pow"}
InputFilters == {None, "w"}

\* the ids of the matching rows of the fingerprint of row i
MatchingGroup(rows, i, operation_filter, input_filter) ==
    {j \in AllRowIds(rows, operation_filter, input_filter) :
        rows[j].operation = rows[i].operation /\ rows[j].input = rows[i].input}

\* C12: whatever the table holds and whatever the filters, every list
\* get_unique_operations may return has at most one record per (operation,
\* input), and for every pair with a matching row it has a record of that pair
\* whose timestamp is the greatest of the pair's matching rows, also when two
\* rows of the pair carry the same timestamp.
C12_UniqueViewOnePerFingerprint ==
    \A of \in OperationFilters, if \in InputFilters :
        \A view \in get_unique_operations(db, of, if) :
            /\ \A a, b \in DOMAIN view :
                  (view[a].operation = view[b].operation /\ view[a].input = view[b].input)
                      => a = b
            /\ \A i \in AllRowIds(db, of, if) :
                  \E a \in DOMAIN view :
                      /\ view[a].operation = db[i].operation
                      /\ view[a].input = db[i].input
                      /\ \A j \in MatchingGroup(db, i, of, if) :
                            TextLeq(db[j].timestamp, view[a].timestamp)

\* the table read from its newest row to its oldest
NewestFirst(rows) == [k \in 1..Len(rows) |-> rows[Len(rows) + 1 - k]]

\* C13: every list get_all_operations may return without filters has one record
\* per append, duplicates included, and lists them newest first: it is the table
\* read backwards, so no record appended later comes after one appended earlier.
C13_AllNewestFirst ==
    \A view \in get_all_operations(db, None, None) :
        /\ Len(view) = Len(db)
        /\ view = NewestFirst(db)

\* ------------------------------------------- properties of the coordinators
\* a payload with a negative n for factorial or fibonacci
NegativeN(o, p) == o \in {"factorial", "fibonacci"} /\ p.n < 0

C15_WaitEnds == (cli_pc = "join") ~> (cli_pc = "ready")

\* C16: when save_operation raises in a cache-miss request, the request ends
\* with an error for its caller (HTTP 500 from the REST handler, the echoed
\* error of the worker for the CLI) and not with the result, and the append is
\* not tried again: the step appends no row, no callback is called twice, and
\* the table holds exactly the rows of the callbacks that ran to their end.
C16_SaveFailureSurfaces ==
    /\ [][(WorkerCallbackSaveFails
           \/ \E o \in Operations : \E p \in Payloads(o) : ApiSaveFails(o, p))
          => (out'.value = Answer("error", None) /\ db' = db)]_vars
    /\ [](\A id \in TaskIds : Cardinality(Positions("callback", id)) <= 1)
    /\ [](Len(db) = Cardinality({i \in DOMAIN trace : trace[i].what = "callback_end"}))

\* C16 witness: the save of a CLI request failed, the worker marked the task done
\* and the caller is back from join() with the error as its answer.
C16_Witness ==
    /\ out.call = "cli" /\ out.value.path = "error"
    /\ \E i, j \in DOMAIN trace :
          /\ i < j
          /\ trace[i].what = "callback_raised"
          /\ trace[j].what = "task_done" /\ trace[j].id = trace[i].id
    /\ cli_pc = "ready"

\* C17: no step changes or removes the value cached under a key, except a
\* clear_cache(), which removes every entry at once: a store to a key that is
\* already cached writes the value it holds.
C17_CacheEntryImmutable ==
    [][\/ \A k \in DOMAIN memory_cache :
              k \in DOMAIN memory_cache' /\ memory_cache'[k] = memory_cache[k]
       \/ (clears' = clears + 1 /\ DOMAIN memory_cache' = {})]_vars

\* C17 witness: a key was stored by a REST request while the CLI task of the
\* same request was waiting to run, then stored again by that task's callback,
\* beside another cached key, after an earlier clear.
C17_Witness ==
    /\ wstate = "in_callback"
    /\ wtask.callback.kind = "on_result"
    /\ out.call = "api"
    /\ out.key = <<wtask.callback.operation,
                   InputJson(wtask.callback.operation, wtask.callback.data)>>
    /\ Cardinality(DOMAIN memory_cache) >= 2
    /\ clears >= 1

\* ------------------------------------------------- fibonacci, called alone
MaxFibN == 10
MaxCalls == 2
FibInputs == (0 - MaxFibN)..MaxFibN

\* fibonacci(n) called directly, as tests/test_fibonacci.py does
FibonacciCall(n) ==
    /\ Len(trace) < MaxCalls
    /\ out' = [call |-> "fibonacci", key |-> <<>>, value |-> fibonacci(n)]
    /\ trace' = Append(trace, Event("fibonacci", [id |-> n], fibonacci(n)))
    /\ UNCHANGED <<threads, cacheVars, logVars, workerVars, cli_pc,
                   clears, stored, base, served, miss_body, puts>>

FibNext == \E n \in FibInputs : FibonacciCall(n)

SpecFib == Init /\ [][FibNext]_vars

\* C18: every call fibonacci(n) made so far raised when n < 0, returned n when
\* n is 0 or 1, and returned fibonacci(n-1) + fibonacci(n-2) when n >= 2.
C18_FibonacciRecurrence ==
    \A i \in DOMAIN trace :
        LET n == trace[i].id
            r == trace[i].value
        IN  /\ n < 0 => r.raised
            /\ n = 0 => r = Returned(0)
            /\ n = 1 => r = Returned(1)
            /\ n >= 2 => /\ ~r.raised
                         /\ r.value = fibonacci(n - 1).value + fibonacci(n - 2).value

\* C18 witness: a call with a negative n that raised, followed by a call with
\* the largest n, which returned more than n.
C18_Witness ==
    /\ Len(trace) = MaxCalls
    /\ trace[1].id < 0
    /\ trace[1].value.raised
    /\ trace[MaxCalls].id = MaxFibN
    /\ ~out.value.raised
    /\ out.value.value > MaxFibN

\* C19: a call set_in_cache(operation, input_data, result), whose pair the
\* step records in out.key, leaves the lookup of every other (operation,
\* input_data) pair as it was: a pair that missed still misses and a pair that
\* hit still returns the same value.
C19_StoreTouchesOnlyItsPair ==
    [][out'.call = "set_in_cache" =>
          \A o2 \in CacheOperations, i2 \in CacheInputs :
              <<o2, i2>> # out'.key =>
                  get_from_cache(memory_cache', o2, i2) =
                      get_from_cache(memory_cache, o2, i2)]_vars

\* C19 witness: a store has just been made beside an entry of the same
\* operation with another input and another value, while the pair of the other
\* operation with the stored input is not cached.
C19_Witness ==
    /\ out.call = "set_in_cache"
    /\ out.key \in DOMAIN memory_cache
    /\ \E k \in DOMAIN memory_cache :
          /\ k[1] = out.key[1]
          /\ k[2] # out.key[2]
          /\ memory_cache[k] # memory_cache[out.key]
    /\ \E o2 \in CacheOperations \ {out.key[1]} :
          get_from_cache(memory_cache, o2, out.key[2]) = None

\* C20: get_cache_stats() reports as total_cached_operations the number of
\* distinct keys stored since the last clear_cache(), and cached_keys has that
\* many entries, one for each stored key.
C20_StatsCountStoredKeys ==
    out.call = "get_cache_stats" =>
        /\ out.value.total_cached_operations = Cardinality(DOMAIN stored)
        /\ BagCardinality(out.value.cached_keys) = Cardinality(DOMAIN stored)
        /\ \A k \in DOMAIN stored :
              /\ BagIn(KeyText(k), out.value.cached_keys)
              /\ CopiesIn(KeyText(k), out.value.cached_keys) =
                     Cardinality({j \in DOMAIN stored : KeyText(j) = KeyText(k)})

\* C20 witness: the statistics are read after a clear, while two distinct keys
\* with the same text are cached.
C20_Witness ==
    /\ out.call = "get_cache_stats"
    /\ clears >= 1
    /\ out.value.total_cached_operations >= 2
    /\ \E k, j \in DOMAIN stored : k # j /\ KeyText(k) = KeyText(j)

\* the sum of a dict's values
RECURSIVE SumValues(_)
SumValues(d) ==
    IF DOMAIN d = {} THEN 0
    ELSE LET k == CHOOSE x \in DOMAIN d : TRUE
         IN d[k] + SumValues([x \in DOMAIN d \ {k} |-> d[x]])

\* C21: after any appends, by_operation of get_db_stats has exactly the
\* operation names that occur in the table as keys, maps each to the number of
\* its rows, duplicates included, and its counts add up to total_operations.
C21_ByOperationCounts ==
    LET stats == get_db_stats(db)
    IN /\ DOMAIN stats.by_operation = {db[i].operation : i \in DOMAIN db}
       /\ \A o \in DOMAIN stats.by_operation :
             /\ stats.by_operation[o] >= 1
             /\ stats.by_operation[o] =
                    Cardinality({i \in DOMAIN db : db[i].operation = o})
       /\ SumValues(stats.by_operation) = stats.total_operations

\* C21 witness: the statistics were read from a table with two operation names,
\* one of them with two rows of the same input.
C21_Witness ==
    /\ out.call = "get_db_stats"
    /\ out.value = get_db_stats(db)
    /\ Cardinality(DOMAIN out.value.by_operation) >= 2
    /\ \E i, j \in DOMAIN db :
          i # j /\ db[i].operation = db[j].operation /\ db[i].input = db[j].input

\* ------------------------------------ save_operation called from several threads
\* every thread opens its own connection; SQLite lets one connection at a time
\* hold the write lock, from its INSERT until its commit
InCall == {t \in ThreadIds : threads[t].pc # "idle"}
MaxSaves == 2
SaveInputs == {"{}"}

\* a faulty database without the write lock
WriteLockIgnored(t) == TRUE

\* no other connection is between its INSERT and its commit
WriteLockFree(t) == \A u \in ThreadIds \ {t} : threads[u].pc # "commit"

\* sqlite3.connect(DB_FILE) and the parameters of the INSERT, utcnow() among them
SaveConnect(t, operation, input_data, result) ==
    /\ threads[t].pc = "idle"
    /\ Len(db) + Cardinality(InCall) < MaxSaves
    /\ threads' = [threads EXCEPT ![t] =
                      [Thread0 EXCEPT !.pc = "insert", !.operation = operation,
                                      !.input = input_data, !.result = result,
                                      !.timestamp = isoformat(now)]]
    /\ UNCHANGED <<cacheVars, logVars, workerVars, cli_pc, out, historyVars>>

\* cursor.execute(INSERT ...): takes the write lock and adds the row to the
\* connection's copy of the table
SaveExecute(t) ==
    /\ threads[t].pc = "insert"
    /\ WriteLockFree(t)
    /\ threads' = [threads EXCEPT ![t].pc = "commit", ![t].snapshot = db]
    /\ UNCHANGED <<cacheVars, logVars, workerVars, cli_pc, out, historyVars>>

\* cursor.execute(INSERT ...) while another connection keeps the write lock for
\* longer than the connection's timeout: sqlite3.OperationalError leaves the call
SaveLocked(t) ==
    /\ threads[t].pc = "insert"
    /\ ~WriteLockFree(t)
    /\ threads' = [threads EXCEPT ![t] = Thread0]
    /\ out' = [call |-> "save_operation", key |-> <<threads[t].operation, threads[t].input>>,
               value |-> Answer("error", None)]
    /\ UNCHANGED <<cacheVars, logVars, workerVars, cli_pc, historyVars>>

\* conn.commit(): the connection's copy with its new row becomes the table
SaveCommit(t) ==
    /\ threads[t].pc = "commit"
    /\ db' = Append(threads[t].snapshot,
                    [operation |-> threads[t].operation, input |-> threads[t].input,
                     result |-> threads[t].result, timestamp |-> threads[t].timestamp])
    /\ threads' = [threads EXCEPT ![t].pc = "close", ![t].snapshot = <<>>]
    /\ UNCHANGED <<cacheVars, now, workerVars, cli_pc, out, historyVars>>

\* conn.close() and the return; the history keeps the row the call was given
SaveReturn(t) ==
    /\ threads[t].pc = "close"
    /\ threads' = [threads EXCEPT ![t] = Thread0]
    /\ out' = [call |-> "save_operation", key |-> <<threads[t].operation, threads[t].input>>,
               value |-> [returned |-> None]]
    /\ trace' = Append(trace, Event("saved", [id |-> t],
                                    <<threads[t].operation, threads[t].input,
                                      threads[t].result, threads[t].timestamp>>))
    /\ UNCHANGED <<cacheVars, logVars, workerVars, cli_pc,
                   clears, stored, base, served, miss_body, puts>>

SaveNext ==
    \/ \E t \in ThreadIds, o \in LogOperations, i \in SaveInputs, r \in LogResults :
           SaveConnect(t, o, i, r)
    \/ \E t \in ThreadIds : SaveExecute(t)
    \/ \E t \in ThreadIds : SaveLocked(t)
    \/ \E t \in ThreadIds : SaveCommit(t)
    \/ \E t \in ThreadIds : SaveReturn(t)

SpecSave == Init /\ [][SaveNext]_vars

\* a table row as the tuple of its four columns
RowTuple(row) == <<row.operation, row.input, row.result, row.timestamp>>

\* the rows of the calls that have committed: those that returned, and those
\* of the threads between commit and return
Committed(tuple) ==
    Cardinality({i \in DOMAIN trace : trace[i].what = "saved" /\ trace[i].value = tuple})
    + Cardinality({t \in ThreadIds : threads[t].pc = "close" /\ RowTuple(threads[t]) = tuple})

\* C22: with several threads in save_operation, the table holds as many rows as
\* calls have committed, and each row, whole, as often as calls that committed
\* it: when every thread has returned, that is one row per completed call.
C22_ConcurrentSavesAllKept ==
    /\ Len(db) = Cardinality({i \in DOMAIN trace : trace[i].what = "saved"})
                 + Cardinality({t \in ThreadIds : threads[t].pc = "close"})
    /\ \A i \in DOMAIN db :
          Cardinality({j \in DOMAIN db : RowTuple(db[j]) = RowTuple(db[i])})
              = Committed(RowTuple(db[i]))

\* C22 witness: two calls of two threads have both returned, the one that
\* committed first returning last, and the table holds their two different rows.
C22_Witness ==
    /\ InCall = {}
    /\ Len(trace) = 2
    /\ trace[1].id # trace[2].id
    /\ trace[1].value # trace[2].value
    /\ Len(db) = 2
    /\ RowTuple(db[1]) = trace[2].value

\* ------------------------------------------------ clear_cache() called repeatedly
\* as the setup_cache fixture does around every test: clear, stores and
\* lookups, clear, and the next test's clear right after it
MaxRepeats == 3
RepeatOperations == {"pow", "factorial"}
RepeatInputs == {"{\"n\":5}"}
RepeatResults == {"{\"result\":8}", "{\"result\":120}"}

RepeatNext ==
    \/ \E o \in RepeatOperations, i \in RepeatInputs, r \in RepeatResults :
           CallSetInCache(o, i, r)
    \/ \E o \in RepeatOperations, i \in RepeatInputs : CallGetFromCache(o, i)
    \/ CallGetCacheStats
    \/ ClearCacheUpTo(MaxRepeats)

SpecRepeat == Init /\ [][RepeatNext]_vars

\* C23: a clear_cache() that follows a clear_cache() directly returns, finds
\* nothing to remove and leaves the cache as the first left it, empty; and after
\* any number of clears with no store in between every lookup returns None.
C23_ClearIdempotent ==
    /\ [][(out.call = "clear_cache" /\ clears' = clears + 1) =>
             /\ out'.call = "clear_cache"
             /\ out'.value.old_size = 0
             /\ memory_cache' = memory_cache
             /\ DOMAIN memory_cache' = {}]_vars
    /\ [](clears >= 1 /\ DOMAIN stored = {} =>
             /\ get_cache_stats(memory_cache).total_cached_operations = 0
             /\ \A o \in RepeatOperations, i \in RepeatInputs :
                    get_from_cache(memory_cache, o, i) = None)

\* C23 witness: the third clear_cache() found the cache as the second had left
\* it.
C23_Witness ==
    /\ out.call = "clear_cache"
    /\ clears = MaxRepeats
    /\ out.value.old_size = 0
    /\ DOMAIN memory_cache = {}

\* --------------------------------------- every endpoint of the REST front end
\* get_requests without filters: one of the lists the chosen query may return
ApiGetRequests(unique) ==
    /\ \E view \in (IF unique THEN get_unique_operations(db, None, None)
                    ELSE get_all_operations(db, None, None)) :
          out' = [call |-> "get_requests", key |-> <<>>,
                  value |-> [returned |-> view]]
    /\ UNCHANGED <<cacheVars, logVars, workerVars, cli_pc, historyVars, threads>>

\* get_database_statistics
ApiGetDbStats == CallGetDbStats

\* get_cache_statistics
ApiGetCacheStats == CallGetCacheStats

ServiceOperations == {"pow", "fibonacci"}

ServiceNext ==
    \/ \E o \in ServiceOperations : \E p \in Payloads(o) : ApiCompute(o, p)
    \/ ClearCache
    \/ \E unique \in BOOLEAN : ApiGetRequests(unique)
    \/ ApiGetDbStats
    \/ ApiGetCacheStats
    \/ Tick

SpecService == Init /\ [][ServiceNext]_vars

\* C24: every step of the REST front end (compute, clear, queries, statistics)
\* leaves the table as it was or with exactly one row added after the rows it
\* had; a clear_cache() leaves it as it was.
C24_LogAppendOnly ==
    /\ [][\/ db' = db
          \/ /\ Len(db') = Len(db) + 1
             /\ SubSeq(db', 1, Len(db)) = db]_vars
    /\ [][clears' # clears => db' = db]_vars

\* C24 witness: after a clear a fingerprint was computed and appended a second
\* time beside its first row, and the rows have been queried since.
C24_Witness ==
    /\ out.call = "get_requests"
    /\ clears >= 1
    /\ Len(out.value.returned) >= 2
    /\ \E i, j \in DOMAIN db :
          i < j /\ db[i].operation = db[j].operation /\ db[i].input = db[j].input

\* the task of put number id waits on the queue with no exit signal put before
\* it: none ahead of it on the queue, none taken by the worker
AheadOfExit(id) ==
    /\ Positions("exit", NoneItem.id) = {}
    /\ \E k \in DOMAIN queue :
          /\ queue[k].id = id
          /\ \A j \in 1..(k - 1) : queue[j].id # NoneItem.id

\* the worker has taken the task of put number id and called its func
Invoked(id) ==
    /\ Positions("get", id) # {}
    /\ PutOf(id).func # "missing" => Positions("func", id) # {}

\* C25: a task put ahead of any exit signal is taken from the queue and its func
\* called by the worker, and no task is taken or has its func called twice.
C25_TaskConsumedExactlyOnce ==
    /\ \A id \in 1..MaxTasks : AheadOfExit(id) ~> Invoked(id)
    /\ [](\A id \in TaskIds :
             /\ Cardinality(Positions("get", id)) <= 1
             /\ Cardinality(Positions("func", id)) <= 1)

\* C25 witness: a task was put and its func called once, and the worker has
\* since taken the exit signal put behind it and stopped.
C25_Witness ==
    \E i, j, k \in DOMAIN trace :
        /\ i < j /\ j < k
        /\ trace[i].what = "put" /\ trace[i].id # NoneItem.id
        /\ trace[j].what = "func" /\ trace[j].id = trace[i].id
        /\ trace[k].what = "exit"
        /\ Cardinality(Positions("func", trace[i].id)) = 1
        /\ wstate = "stopped"

\* ------------------------- the compute handlers, run by the server's thread pool
\* calculate_* are plain def handlers: each request runs on a thread of its own,
\* and the threads interleave between the handler's calls
MaxRequests == 2
RaceOperations == {"factorial", "fibonacci"}

Requested == {i \in DOMAIN trace : trace[i].what \in {"hit", "miss"}}

\* input_json = ...; cached = get_from_cache(...); on a hit the return, on a miss
\* the operation and result_json = output.model_dump_json()
RaceLookup(t, operation, payload) ==
    LET input_json == InputJson(operation, payload)
        f == <<operation, input_json>>
        cached == get_from_cache(memory_cache, operation, input_json)
        r == Call(OperationFunc(operation), payload)
        result_json == ResultJson(operation, payload, r.value)
        loaded == JsonModels(cached)
    IN
    /\ threads[t].pc = "idle"
    /\ Cardinality(Requested) < MaxRequests
    /\ Validates(operation, payload)
    /\ ~r.raised
    /\ IF Truthy(cached)
       THEN /\ out' = [call |-> "api", key |-> f, value |->
                         IF loaded # {}
                         THEN Answer("hit", ResponseJson(CHOOSE m \in loaded : TRUE))
                         ELSE Answer("error", None)]
            /\ trace' = Append(trace, Event("hit", [id |-> t], f))
            /\ UNCHANGED threads
       ELSE /\ threads' = [threads EXCEPT ![t] =
                              [Thread0 EXCEPT !.pc = "store", !.operation = operation,
                                              !.input = input_json, !.result = result_json]]
            /\ trace' = Append(trace, Event("miss", [id |-> t], f))
            /\ UNCHANGED out
    /\ UNCHANGED <<cacheVars, logVars, workerVars, cli_pc,
                   clears, stored, base, served, miss_body, puts>>

\* set_in_cache(operation, input_json, result_json)
RaceStore(t) ==
    /\ threads[t].pc = "store"
    /\ memory_cache' = set_in_cache(memory_cache, threads[t].operation,
                                    threads[t].input, threads[t].result)
    /\ stored' = (<<threads[t].operation, threads[t].input>> :> threads[t].result) @@ stored
    /\ threads' = [threads EXCEPT ![t].pc = "append"]
    /\ trace' = Append(trace, Event("store", [id |-> t],
                                    <<threads[t].operation, threads[t].input>>))
    /\ UNCHANGED <<logVars, workerVars, cli_pc, out,
                   clears, base, served, miss_body, puts>>

\* save_operation(operation, input_json, result_json)
RaceAppend(t) ==
    /\ threads[t].pc = "append"
    /\ db' = save_operation(db, threads[t].operation, threads[t].input,
                            threads[t].result, now)
    /\ threads' = [threads EXCEPT ![t].pc = "respond"]
    /\ trace' = Append(trace, Event("append", [id |-> t],
                                    <<threads[t].operation, threads[t].input>>))
    /\ UNCHANGED <<cacheVars, now, workerVars, cli_pc, out,
                   clears, stored, base, served, miss_body, puts>>

\* return output
RaceRespond(t) ==
    /\ threads[t].pc = "respond"
    /\ out' = [call |-> "api", key |-> <<threads[t].operation, threads[t].input>>,
               value |-> Answer("miss", threads[t].result)]
    /\ threads' = [threads EXCEPT ![t] = Thread0]
    /\ trace' = Append(trace, Event("respond", [id |-> t],
                                    <<threads[t].operation, threads[t].input>>))
    /\ UNCHANGED <<cacheVars, logVars, workerVars, cli_pc,
                   clears, stored, base, served, miss_body, puts>>

RaceNext ==
    \/ \E t \in ThreadIds, o \in RaceOperations :
           \E p \in Payloads(o) : RaceLookup(t, o, p)
    \/ \E t \in ThreadIds : RaceStore(t)
    \/ \E t \in ThreadIds : RaceAppend(t)
    \/ \E t \in ThreadIds : RaceRespond(t)

SpecRace == Init /\ [][RaceNext]_vars

\* the row a handler thread appends for its request
RequestRow(t) ==
    <<threads[t].operation, threads[t].input, threads[t].result>>

RowsLike(t) ==
    {i \in DOMAIN db : <<db[i].operation, db[i].input, db[i].result>> = RequestRow(t)}

\* C26: a request that missed the cache stores its result under its fingerprint
\* while the table and the caller have seen nothing of it, appends its one row
\* only when the store is made, and answers the caller only when both are made;
\* the table holds one row per request that missed and has appended.
C26_StoreThenAppendThenAnswer ==
    /\ [][\A t \in ThreadIds :
            /\ (threads[t].pc = "store" /\ threads'[t].pc = "append") =>
                  /\ get_from_cache(memory_cache', threads[t].operation,
                                    threads[t].input) = threads[t].result
                  /\ db' = db
                  /\ out' = out
            /\ (threads[t].pc = "append" /\ threads'[t].pc = "respond") =>
                  /\ get_from_cache(memory_cache, threads[t].operation,
                                    threads[t].input) = threads[t].result
                  /\ Len(db') = Len(db) + 1
                  /\ RowTuple(db'[Len(db')]) =
                         RequestRow(t) \o <<isoformat(now)>>
                  /\ out' = out
            /\ (threads[t].pc = "respond" /\ threads'[t].pc = "idle") =>
                  /\ out'.value = Answer("miss", threads[t].result)
                  /\ get_from_cache(memory_cache, threads[t].operation,
                                    threads[t].input) = threads[t].result
                  /\ RowsLike(t) # {}
                  /\ db' = db]_vars
    /\ [](Len(db) = Cardinality({i \in DOMAIN trace : trace[i].what = "respond"})
                    + Cardinality({t \in ThreadIds : threads[t].pc = "respond"}))

\* C26 witness: a request that missed has been answered with its result, which
\* the cache and one row of the table hold.
C26_Witness ==
    /\ out.call = "api"
    /\ out.value.path = "miss"
    /\ out.key \in DOMAIN memory_cache
    /\ memory_cache[out.key] = out.value.body
    /\ Cardinality(RowsOf(db, out.key)) = 1
    /\ \A t \in ThreadIds : threads[t].pc = "idle"

\* a handler thread that has made the first of its two writes, the cache store,
\* and not yet the second, the append
BetweenWrites(t) == threads[t].pc = "append"

\* C27: the writes of compute requests are made one request after the other: no
\* request thread makes a write while another is between its two writes.
C27_WritesSerialized ==
    \A t, u \in ThreadIds : (BetweenWrites(t) /\ BetweenWrites(u)) => t = u

\* the fingerprints two requests of different threads missed before any store
\* for them was made
Raced ==
    {f \in {trace[i].value : i \in DOMAIN trace} :
        \E i, j \in DOMAIN trace :
            /\ i < j
            /\ trace[i].what = "miss" /\ trace[j].what = "miss"
            /\ trace[i].value = f /\ trace[j].value = f
            /\ trace[i].id # trace[j].id
            /\ \A k \in 1..j : ~(trace[k].what = "store" /\ trace[k].value = f)}

Misses(f) == {i \in DOMAIN trace : trace[i].what = "miss" /\ trace[i].value = f}

\* C28: when requests for one fingerprint have missed before any of them
\* stored, then once all have answered the table has one row for each of them
\* (two rows for two requests), all with the same result, and the cache has the
\* one entry of the fingerprint, with the value the last store wrote.
C28_RaceAppendsTwice ==
    (\A t \in ThreadIds : threads[t].pc = "idle") =>
        \A f \in Raced :
            /\ Cardinality(RowsOf(db, f)) = Cardinality(Misses(f))
            /\ Cardinality(Misses(f)) >= 2
            /\ \A i, j \in RowsOf(db, f) : db[i].result = db[j].result
            /\ f \in DOMAIN memory_cache
            /\ f \in DOMAIN stored
            /\ memory_cache[f] = stored[f]
            /\ \A i \in RowsOf(db, f) : db[i].result = memory_cache[f]

\* C28 witness: two requests for one fingerprint both missed before either
\* stored and both have answered; the table has exactly two rows for it.
C28_Witness ==
    /\ \A t \in ThreadIds : threads[t].pc = "idle"
    /\ \E f \in Raced :
          /\ Cardinality(Misses(f)) = 2
          /\ Cardinality(RowsOf(db, f)) = 2
          /\ Cardinality({k \in DOMAIN memory_cache : k = f}) = 1

\* ------------------------------- get_db_stats read while other threads append
\* the thread that serves GET /api/database/stats; the appends of the others are
\* save_operation calls, each one step
StatsReader == 1

\* SELECT COUNT(*) FROM operations
StatsTotal ==
    /\ threads[StatsReader].pc = "idle"
    /\ threads' = [threads EXCEPT ![StatsReader] =
                      [Thread0 EXCEPT !.pc = "unique",
                                      !.total = get_db_stats(db).total_operations]]
    /\ UNCHANGED <<cacheVars, logVars, workerVars, cli_pc, out, historyVars>>

\* SELECT COUNT(DISTINCT operation || input) FROM operations
StatsUnique ==
    /\ threads[StatsReader].pc = "unique"
    /\ threads' = [threads EXCEPT ![StatsReader].pc = "by_operation",
                                  ![StatsReader].unique =
                                      get_db_stats(db).unique_combinations]
    /\ UNCHANGED <<cacheVars, logVars, workerVars, cli_pc, out, historyVars>>

\* SELECT operation, COUNT(*) ... GROUP BY operation, and the dict returned
StatsByOperation ==
    /\ threads[StatsReader].pc = "by_operation"
    /\ out' = [call |-> "get_db_stats", key |-> <<>>,
               value |-> [total_operations |-> threads[StatsReader].total,
                          unique_combinations |-> threads[StatsReader].unique,
                          duplicates |-> threads[StatsReader].total
                                             - threads[StatsReader].unique,
                          by_operation |-> get_db_stats(db).by_operation]]
    /\ threads' = [threads EXCEPT ![StatsReader] = Thread0]
    /\ UNCHANGED <<cacheVars, logVars, workerVars, cli_pc, historyVars>>

\* another thread's save_operation
StatsAppend(operation, input_data, result) ==
    /\ Len(db) < MaxSaves
    /\ db' = save_operation(db, operation, input_data, result, now)
    /\ UNCHANGED <<cacheVars, now, workerVars, cli_pc, out, historyVars, threads>>

StatsNext ==
    \/ StatsTotal
    \/ StatsUnique
    \/ StatsByOperation
    \/ \E o \in LogOperations, i \in LogInputs, r \in LogResults : StatsAppend(o, i, r)

SpecStats == Init /\ [][StatsNext]_vars

\* C29: every result get_db_stats returns while other threads append has
\* duplicates >= 0 and unique_combinations <= total_operations.
C29_StatsConsistentUnderAppends ==
    out.call = "get_db_stats" =>
        /\ out.value.duplicates >= 0
        /\ out.value.unique_combinations <= out.value.total_operations

\* C30: unique_combinations of get_db_stats is the number of distinct
\* (operation, input) pairs among the rows of the table.
C30_UniqueCountsPairs ==
    get_db_stats(db).unique_combinations =
        Cardinality({<<db[i].operation, db[i].input>> : i \in DOMAIN db})

\* whether s occurs in text as it is written
Contains(text, s) ==
    \E i \in 1..(Len(text) + 1 - Len(s)) : SubSeq(text, i, i + Len(s) - 1) = s

\* input filters with a letter in both cases and with LIKE's one-character sign
LiteralFilters == {None, "w", "W", "_"}

\* the ids of the rows whose operation is the filter's and whose input contains
\* the input filter literally; a filter left out restricts nothing
LiteralRowIds(rows, operation_filter, input_filter) ==
    {i \in DOMAIN rows :
        /\ operation_filter # None => rows[i].operation = operation_filter
        /\ input_filter # None => Contains(rows[i].input, input_filter)}

\* C31: whatever the table holds, get_all_operations(o, s) returns exactly the
\* rows whose operation equals o and whose input contains s as a literal
\* substring, each once, for every o and every s, a left-out filter restricting
\* nothing.
C31_FiltersAreLiteral ==
    \A of \in OperationFilters, if \in LiteralFilters :
        \A view \in get_all_operations(db, of, if) :
            /\ Len(view) = Cardinality(LiteralRowIds(db, of, if))
            /\ \A i \in LiteralRowIds(db, of, if) : \E k \in DOMAIN view : view[k] = db[i]

\* -------------------------------------- readers of the cache beside clear_cache
\* get_cache_stats() loads the global memory_cache once for len() and once more
\* for the keys; a clear_cache() of another thread can come in between. Stores
\* are made while no statistics are being read.
ReaderLen ==
    /\ threads[StatsReader].pc = "idle"
    /\ threads' = [threads EXCEPT ![StatsReader] =
                      [Thread0 EXCEPT !.pc = "keys",
                                      !.total = get_cache_stats(memory_cache).total_cached_operations,
                                      !.snapshot = memory_cache]]
    /\ UNCHANGED <<cacheVars, logVars, workerVars, cli_pc, out, historyVars>>

ReaderKeys ==
    /\ threads[StatsReader].pc = "keys"
    /\ out' = [call |-> "get_cache_stats", key |-> <<>>,
               value |-> [total_cached_operations |-> threads[StatsReader].total,
                          cached_keys |-> get_cache_stats(memory_cache).cached_keys]]
    /\ threads' = [threads EXCEPT ![StatsReader].pc = "idle"]
    /\ UNCHANGED <<cacheVars, logVars, workerVars, cli_pc, historyVars>>

ReaderStore(operation, input_data, result) ==
    /\ threads[StatsReader].pc = "idle"
    /\ CallSetInCache(operation, input_data, result)

ReadersNext ==
    \/ \E o \in RepeatOperations, i \in RepeatInputs, r \in RepeatResults :
           ReaderStore(o, i, r)
    \/ \E o \in RepeatOperations, i \in RepeatInputs : CallGetFromCache(o, i)
    \/ ReaderLen
    \/ ReaderKeys
    \/ ClearCache

SpecReaders == Init /\ [][ReadersNext]_vars

\* C32: beside clear_cache() a reader sees the whole cache or the empty one:
\* the cache is at all times exactly what was stored since the last clear, a
\* lookup returns what was stored since then or None, and get_cache_stats()
\* returns the statistics of the cache as it was when the call began or those of
\* the empty cache.
C32_ClearAtomicForReaders ==
    /\ [](memory_cache = stored)
    /\ [][clears' # clears => DOMAIN memory_cache' = {}]_vars
    /\ [](out.call = "get_from_cache" =>
              out.value.returned \in {StoredValue(out.key), None})
    /\ [][threads[StatsReader].pc = "keys" /\ threads'[StatsReader].pc = "idle" =>
             out'.value \in {get_cache_stats(threads[StatsReader].snapshot),
                             get_cache_stats(EmptyDict)}]_vars

\* C33: a set_in_cache(operation, input_data, result) leaves the key with the
\* result as its value, whatever it held, and every other entry as it was; on
\* a key that is cached the number of entries stays, and when the key already
\* holds the result the cache stays as it is.
C33_StoreIdempotentLastWins ==
    [][out'.call = "set_in_cache" =>
          LET key == out'.key
              value == stored'[key]
          IN /\ DOMAIN memory_cache' = DOMAIN memory_cache \cup {key}
             /\ memory_cache'[key] = value
             /\ \A k \in DOMAIN memory_cache \ {key} : memory_cache'[k] = memory_cache[k]
             /\ key \in DOMAIN memory_cache =>
                   Cardinality(DOMAIN memory_cache') = Cardinality(DOMAIN memory_cache)
             /\ (key \in DOMAIN memory_cache /\ memory_cache[key] = value) =>
                   memory_cache' = memory_cache]_vars

\* C33 witness: a store has been made to one of two or more cached keys, and
\* the lookup of the key returns the value stored last.
C33_Witness ==
    /\ out.call = "set_in_cache"
    /\ Cardinality(DOMAIN memory_cache) >= 2
    /\ get_from_cache(memory_cache, out.key[1], out.key[2]) = stored[out.key]
    /\ \E k \in DOMAIN memory_cache : memory_cache[k] # memory_cache[out.key]

\* --------------------- a CLI command waiting in join() on a worker fed any task
\* the callers of the process put tasks of every kind, the exit signal may be
\* put, and the save of on_result may fail
JoinNext ==
    \/ \E o \in ServiceOperations : \E p \in Payloads(o) : CliCommand(o, p)
    \/ CliJoin
    \/ \E t \in AnyTasks : Submit(t)
    \/ Shutdown
    \/ WorkerStep
    \/ WorkerCallbackRaise
    \/ WorkerCallbackSaveFails

SpecJoin == Init /\ [][JoinNext]_vars

\* the worker thread is scheduled as long as it can run, and a caller blocked in
\* join() returns once join() lets it
FairJoin ==
    /\ SpecJoin
    /\ WF_vars(WorkerRun \/ WorkerCallbackSaveFails)
    /\ WF_vars(CliJoin)

\* the exit signal has been put: it waits on the queue or the worker has taken it
ExitSignalled ==
    \/ NoneItem \in {queue[i] : i \in DOMAIN queue}
    \/ Positions("exit", NoneItem.id) # {}

\* the worker is through with the task of put number id: its func raised, or
\* its callback ran to its end or raised
Finished(id) ==
    \/ Positions("raised", id) # {}
    \/ Positions("callback_end", id) # {}
    \/ Positions("callback_raised", id) # {}

\* C34: a CLI command waiting in task_queue.join() is released unless the exit
\* signal is put; every task the worker takes is marked done exactly once,
\* whether its func returns, its func raises or its callback raises, and the
\* count of unfinished tasks is that of the puts not yet marked done; and
\* join() releases the caller only when every task put, its own included, has
\* had its callback end or raise (or its func raise) and has been marked done.
C34_JoinReleasedAfterCallback ==
    /\ (cli_pc = "join") ~> (cli_pc = "ready" \/ ExitSignalled)
    /\ \A id \in 1..MaxTasks :
          (Positions("get", id) # {}) ~> (Cardinality(Positions("task_done", id)) = 1)
    /\ [](\A id \in TaskIds :
             /\ Cardinality(Positions("task_done", id)) <= 1
             /\ Positions("task_done", id) # {} => Finished(id))
    /\ [](unfinished_tasks
            = puts - Cardinality({i \in DOMAIN trace : trace[i].what = "task_done"}))
    /\ [][(cli_pc = "join" /\ cli_pc' = "ready") =>
             /\ TaskIds # {}
             /\ \A id \in TaskIds : Finished(id) /\ Positions("task_done", id) # {}]_vars

\* C34 witness: the CLI command has been released from join() after the save of
\* its callback failed, behind a task whose func raised; both tasks were marked
\* done.
C34_Witness ==
    /\ cli_pc = "ready"
    /\ unfinished_tasks = 0
    /\ out = [call |-> "cli", key |-> out.key, value |-> Answer("error", None)]
    /\ \E a, b \in TaskIds :
          /\ a < b
          /\ Positions("raised", a) # {} /\ Positions("task_done", a) # {}
          /\ Positions("callback_raised", b) # {} /\ Positions("task_done", b) # {}

\* C35: once the worker has taken the exit signal and stopped, every item it
\* took from the queue has been marked done, the exit signal included: the
\* count of unfinished tasks is the number of items still on the queue, so that
\* a join() on the emptied queue returns.
C35_ShutdownLeavesQueueBalanced ==
    wstate = "stopped" => unfinished_tasks = Len(queue)

\* C36: in every reachable state each fingerprint in the cache has a row of the
\* table with its operation, its input and the cached result, also after a
\* request whose save_operation failed.
C36_CachedImpliesLogged ==
    \A key \in DOMAIN memory_cache :
        \E i \in DOMAIN db :
            /\ db[i].operation = key[1]
            /\ db[i].input = key[2]
            /\ db[i].result = memory_cache[key]

\* ------------------- both front ends with a request whose operation raises
\* the payloads of Payloads that validate, and pow of zero to a negative
\* exponent, which PowInput accepts and power cannot compute
RaisePayloads(operation) ==
    IF operation = "pow"
    THEN {[x |-> 2, y |-> MaxN], [x |-> 0, y |-> 0 - 1]}
    ELSE {[n |-> MaxN]}

RaiseNext ==
    \/ \E o \in ServiceOperations : \E p \in RaisePayloads(o) : ApiCompute(o, p)
    \/ \E o \in ServiceOperations : \E p \in RaisePayloads(o) : CliCommand(o, p)
    \/ CliJoin
    \/ WorkerStep

SpecRaise == Init /\ [][RaiseNext]_vars

\* the fingerprints of the requests whose operation function raises
RaisingFingerprints ==
    {<<o, InputJson(o, p)>> : o \in {"pow"},
                              p \in {q \in RaisePayloads("pow") : Call("power", q).raised}}

\* C37: when the operation function of a cache-miss request raises, the cache
\* and the table stay as they are (in the REST handler, which answers with an
\* error, and in the worker, which never calls the task's callback), so the
\* fingerprint is never cached and an identical request later is never answered
\* from the cache.
C37_RaiseLeavesNoTrace ==
    /\ [][(out'.call \in {"api", "cli"} /\ out' # out /\ out'.key \in RaisingFingerprints) =>
             /\ memory_cache' = memory_cache
             /\ db' = db
             /\ out'.value \in {Answer("error", None), Answer("waiting", None)}]_vars
    /\ [][(Len(trace') > Len(trace) /\ trace'[Len(trace')].what = "raised") =>
             (memory_cache' = memory_cache /\ db' = db)]_vars
    /\ [](\A id \in TaskIds :
             Positions("raised", id) # {} => Positions("callback", id) = {})
    /\ [](\A f \in RaisingFingerprints :
             f \notin DOMAIN memory_cache /\ RowsOf(db, f) = {})

\* C37 witness: the func of a CLI request's task raised and the command was
\* released; the same command was given again, found no entry and put a second
\* task, whose func raised as well.
C37_Witness ==
    /\ Cardinality(Positions("raised", 1)) = 1
    /\ Cardinality(Positions("raised", 2)) = 1
    /\ PutOf(1) = PutOf(2)
    /\ <<"pow", InputJson("pow", PutOf(1).args)>> \in RaisingFingerprints
    /\ memory_cache = EmptyDict /\ db = <<>>

\* C38: the list get_unique_operations() returns without filters has as many
\* records as get_db_stats() reports unique_combinations, and each of its
\* records is in the list get_all_operations() returns.
C38_UniqueViewMatchesStats ==
    \A view \in get_unique_operations(db, None, None) :
        /\ Len(view) = get_db_stats(db).unique_combinations
        /\ \A all \in get_all_operations(db, None, None) :
              \A k \in DOMAIN view : \E j \in DOMAIN all : all[j] = view[k]

\* ------------------- set_in_cache run by concurrent threads beside clear_cache
\* id(memory_cache): the dict the global name is bound to; each clear_cache()
\* binds the name to a new dict
DictId == clears

\* set_in_cache up to the load of the global in memory_cache[cache_key] = result:
\* the thread holds the dict the name was bound to (kept in the field total)
StoreLoad(t, operation, input_data, result) ==
    /\ threads[t].pc = "idle"
    /\ threads' = [threads EXCEPT ![t] =
                      [Thread0 EXCEPT !.pc = "assign", !.operation = operation,
                                      !.input = input_data, !.result = result,
                                      !.total = DictId]]
    /\ UNCHANGED <<cacheVars, logVars, workerVars, cli_pc, out, historyVars>>

\* the item assignment on the dict the thread holds, and the return; a dict that
\* clear_cache() has replaced in between is no longer the one the name is bound to
StoreAssign(t) ==
    LET operation == threads[t].operation
        input_data == threads[t].input
        result == threads[t].result
    IN
    /\ threads[t].pc = "assign"
    /\ IF threads[t].total = DictId
       THEN /\ memory_cache' = set_in_cache(memory_cache, operation, input_data, result)
            /\ stored' = (<<operation, input_data>> :> result) @@ stored
       ELSE UNCHANGED <<memory_cache, stored>>
    /\ out' = [call |-> "set_in_cache", key |-> <<operation, input_data>>,
               value |-> [returned |-> None]]
    /\ threads' = [threads EXCEPT ![t].pc = "idle"]
    /\ UNCHANGED <<logVars, workerVars, cli_pc, clears, base, served, miss_body, puts,
                   trace>>

LostNext ==
    \/ \E t \in ThreadIds, o \in RepeatOperations, i \in RepeatInputs,
          r \in RepeatResults : StoreLoad(t, o, i, r)
    \/ \E t \in ThreadIds : StoreAssign(t)
    \/ \E o \in RepeatOperations, i \in RepeatInputs : CallGetFromCache(o, i)
    \/ ClearCache

SpecLost == Init /\ [][LostNext]_vars

\* C39: when a set_in_cache(f, v) returns, clear_cache() calls that returned
\* before it included, a get_from_cache(f) that follows returns v.
C39_StoreSurvivesClear ==
    [][\A t \in ThreadIds :
          (threads[t].pc = "assign" /\ threads'[t].pc = "idle") =>
              get_from_cache(memory_cache', threads[t].operation, threads[t].input)
                  = threads[t].result]_vars

====
